---- MODULE Spec2Model ----
(***************************************************************************)
(* Model of the budgeting app: the document store behind the transaction   *)
(* routes (GET/POST /api/transactions, PUT/DELETE /api/transactions/[id]), *)
(* the page load (Home), and the BudgetingApp component: its React state,  *)
(* its asynchronous add/edit/delete handlers and its derived aggregates.   *)
(*                                                                         *)
(* Strings the code takes apart (dates, the amount input) are sequences of *)
(* one-character strings, so that substring, parsing and formatting are    *)
(* computed.  Strings the code only compares (description, category, type) *)
(* are TLA+ strings.                                                       *)
(*                                                                         *)
(* Modelling decisions:                                                    *)
(*  - amounts are non-negative integers (the amount input is type=number   *)
(*    with the default step of 1); double rounding is outside the model;   *)
(*  - the user fills the form right before submitting it;                  *)
(*  - expandedMonths is left out: it only decides which edit/delete        *)
(*    buttons are visible, and the user can always expand a month first;   *)
(*  - the edit dialog is modal: while it is open, only its own form and    *)
(*    its dismissal respond to the user;                                   *)
(*  - a page load (Home) happens when no request is in flight;             *)
(*  - server and network failures are not modelled.                        *)
(***************************************************************************)
EXTENDS Integers, Sequences, FiniteSets, TLC

\* ---------------------------------------------------------------- bounds

\* Store-assigned identifiers available (the number of successful POSTs).
MaxIds == 2
\* Requests in flight at the same time.
MaxPending == 2
\* Identifiers available when the user waits for each request (SpecSeq).
SeqMaxIds == 3

\* ---------------------------------------------------------------- strings

Digits == <<"0", "1", "2", "3", "4", "5", "6", "7", "8", "9">>

IsDigit(c) == \E i \in 1..10 : Digits[i] = c

DigitVal(c) == (CHOOSE i \in 1..10 : Digits[i] = c) - 1

\* The value of a sequence of decimal digits.
RECURSIVE DigitsVal(_)
DigitsVal(s) ==
  IF s = <<>> THEN 0
  ELSE 10 * DigitsVal(SubSeq(s, 1, Len(s) - 1)) + DigitVal(s[Len(s)])

\* Number.prototype.toString for a non-negative integer.
RECURSIVE NumToString(_)
NumToString(n) ==
  IF n < 10 THEN <<Digits[n + 1]>>
  ELSE NumToString(n \div 10) \o <<Digits[(n % 10) + 1]>>

\* parseFloat on the value of the amount input; NaN for the empty string.
NaN == "NaN"

\* The value of a number input: a non-empty sequence of digits.
IsNumberInputValue(s) == s # <<>> /\ \A i \in 1..Len(s) : IsDigit(s[i])

parseFloat(s) == IF IsNumberInputValue(s) THEN DigitsVal(s) ELSE NaN

\* String.prototype.substring(0, n).
substring(s, n) == SubSeq(s, 1, IF n < Len(s) THEN n ELSE Len(s))

\* The decimal digits of n, zero-padded to width characters.
Pad(n, width) ==
  [i \in 1..width |-> Digits[((n \div (10 ^ (width - i))) % 10) + 1]]

\* ---------------------------------------------------------------- dates

\* A Date value (UTC calendar fields; the time of day is always midnight).
MkDate(y, m, d) == [y |-> y, m |-> m, d |-> d]

TimeSuffix ==
  <<"T", "0", "0", ":", "0", "0", ":", "0", "0", ".", "0", "0", "0", "Z">>

\* The value of a date input: "YYYY-MM-DD".
IsDateInputValue(s) ==
  /\ Len(s) = 10
  /\ s[5] = "-" /\ s[8] = "-"
  /\ \A i \in {1, 2, 3, 4, 6, 7, 9, 10} : IsDigit(s[i])

\* Mongoose's cast of a date string to a Date: "YYYY-MM-DD" or the ISO form
\* "YYYY-MM-DDT00:00:00.000Z" both denote midnight UTC of that day.
CastDate(s) ==
  MkDate(DigitsVal(SubSeq(s, 1, 4)), DigitsVal(SubSeq(s, 6, 7)),
         DigitsVal(SubSeq(s, 9, 10)))

\* Date.prototype.toISOString (what JSON.stringify writes for a Date).
toISOString(dt) ==
  Pad(dt.y, 4) \o <<"-">> \o Pad(dt.m, 2) \o <<"-">> \o Pad(dt.d, 2) \o TimeSuffix

\* Date order, as the store compares dates when sorting.
DateLess(a, b) ==
  \/ a.y < b.y
  \/ a.y = b.y /\ a.m < b.m
  \/ a.y = b.y /\ a.m = b.m /\ a.d < b.d

\* new Date().toISOString().split("T")[0]: today's date as a date input value.
Today == <<"2", "0", "2", "4", "-", "0", "2", "-", "0", "1">>

\* ---------------------------------------------------------------- store

\* The absent value: JSON null, a findById* miss, useState(null).
Null == [null |-> TRUE]

\* new Transaction(body): the schema casts each field of the body; the
\* document gets the identifier id.
NewTransaction(id, body) ==
  [_id |-> id,
   description |-> body.description,
   amount |-> body.amount,
   type |-> body.type,
   category |-> body.category,
   date |-> CastDate(body.date)]

\* JSON.stringify of a document, then JSON.parse: the Date becomes its ISO
\* string.
toJSON(doc) ==
  [_id |-> doc._id,
   description |-> doc.description,
   amount |-> doc.amount,
   type |-> doc.type,
   category |-> doc.category,
   date |-> toISOString(doc.date)]

\* The position of the document with identifier id in coll, 0 if absent.
IndexOfId(coll, id) ==
  IF \E i \in 1..Len(coll) : coll[i]._id = id
  THEN CHOOSE i \in 1..Len(coll) : coll[i]._id = id
  ELSE 0

\* sort({ date: -1 }): newest first; documents with equal dates keep their
\* natural (insertion) order.
RECURSIVE InsertByDateDesc(_, _)
InsertByDateDesc(sorted, doc) ==
  IF sorted = <<>> THEN <<doc>>
  ELSE IF DateLess(Head(sorted).date, doc.date)
       THEN <<doc>> \o sorted
       ELSE <<Head(sorted)>> \o InsertByDateDesc(Tail(sorted), doc)

RECURSIVE SortByDateDesc(_)
SortByDateDesc(coll) ==
  IF coll = <<>> THEN <<>>
  ELSE InsertByDateDesc(SortByDateDesc(SubSeq(coll, 1, Len(coll) - 1)),
                        coll[Len(coll)])

\* Mutant: the sort is missing; the documents come in natural order.
FindSorted_Natural(coll) == coll

\* Transaction.find({}).sort({ date: -1 })
FindSorted(coll) == SortByDateDesc(coll)

\* Mutant: without { new: true } the document as it was before the update is
\* returned.
findByIdAndUpdate_ReturnOld(coll, id, body) ==
  LET i == IndexOfId(coll, id)
  IN  IF i = 0
      THEN [coll |-> coll, result |-> Null]
      ELSE [coll |-> [coll EXCEPT ![i] = NewTransaction(id, body)],
            result |-> coll[i]]

\* Transaction.findByIdAndUpdate(id, body, { new: true }): the collection
\* afterwards and the value returned.
findByIdAndUpdate(coll, id, body) ==
  LET i == IndexOfId(coll, id)
  IN  IF i = 0
      THEN [coll |-> coll, result |-> Null]
      ELSE LET doc == NewTransaction(id, body)
           IN  [coll |-> [coll EXCEPT ![i] = doc], result |-> doc]

\* Mutant: the first document is deleted whatever its identifier (a filter
\* that matches everything).
findByIdAndDelete_First(coll, id) ==
  IF coll = <<>> THEN coll ELSE Tail(coll)

\* Transaction.findByIdAndDelete(id): the collection afterwards.
findByIdAndDelete(coll, id) ==
  SelectSeq(coll, LAMBDA doc : doc._id # id)

\* ---------------------------------------------------------------- routes

\* Each route maps the collection (and its request) to the collection
\* afterwards and the JSON response.

GET(coll) ==
  LET found == FindSorted(coll)
  IN  [i \in 1..Len(found) |-> toJSON(found[i])]

\* Mutant: the document is returned without having been saved.
POST_NoSave(coll, id, body) ==
  [coll |-> coll, response |-> toJSON(NewTransaction(id, body))]

POST(coll, id, body) ==
  LET newTransaction == NewTransaction(id, body)
  IN  [coll |-> Append(coll, newTransaction), response |-> toJSON(newTransaction)]

PUT(coll, id, body) ==
  LET updated == findByIdAndUpdate(coll, id, body)
  IN  [coll |-> updated.coll,
       response |-> IF updated.result = Null THEN Null ELSE toJSON(updated.result)]

DeletedMessage == [message |-> "Transaction deleted successfully"]

DELETE(coll, id) ==
  [coll |-> findByIdAndDelete(coll, id), response |-> DeletedMessage]

\* ---------------------------------------------------------------- inputs

D_2023_12_31 == <<"2", "0", "2", "3", "-", "1", "2", "-", "3", "1">>
D_2024_01_05 == <<"2", "0", "2", "4", "-", "0", "1", "-", "0", "5">>
D_2024_01_10 == <<"2", "0", "2", "4", "-", "0", "1", "-", "1", "0">>
D_2024_02_01 == <<"2", "0", "2", "4", "-", "0", "2", "-", "0", "1">>

FormInput(d, a, t, c, dt) ==
  [description |-> d, amount |-> a, type |-> t, category |-> c, date |-> dt]

\* What the user types into the form: an income and an expense under the same
\* label, on two days of one month.
FormInputs ==
  { FormInput("salary", <<"5">>, "income", "food", D_2024_01_05),
    FormInput("groceries", <<"2">>, "expense", "food", D_2024_01_10) }

\* A wider choice for the runs in which the user waits for each request: a
\* label that differs only in case, three months across a change of year, a
\* two-digit amount.
SeqFormInputs ==
  FormInputs \cup
  { FormInput("snack", <<"1">>, "expense", "Food", D_2024_02_01),
    FormInput("bonus", <<"1", "2">>, "income", "Food", D_2023_12_31) }

\* ---------------------------------------------------------------- state

VARIABLES
  store,              \* the transactions collection, in natural order
  nextId,             \* the next identifier the store assigns
  transactions,       \* useState(initialTransactions)
  description,        \* useState("")
  amount,             \* useState(""): the text of the amount input
  type,               \* useState("expense")
  category,           \* useState("")
  date,               \* useState(today)
  editingTransaction, \* useState(null)
  isEditDialogOpen,   \* useState(false)
  pending,            \* handlers suspended at an await, with their closures
  uncaught            \* a handler's promise was rejected (uncaught TypeError)

ui == <<transactions, description, amount, type, category, date,
        editingTransaction, isEditDialogOpen>>
vars == <<store, nextId, transactions, description, amount, type, category,
          date, editingTransaction, isEditDialogOpen, pending, uncaught>>

\* The state a freshly mounted component starts in.
Mounted(initialTransactions) ==
  /\ transactions = initialTransactions
  /\ description = ""
  /\ amount = <<>>
  /\ type = "expense"
  /\ category = ""
  /\ date = Today
  /\ editingTransaction = Null
  /\ isEditDialogOpen = FALSE

Init ==
  /\ store = <<>>
  /\ nextId = 1
  /\ Mounted(GET(store))
  /\ pending = <<>>
  /\ uncaught = FALSE

\* ---------------------------------------------------------------- form

\* The onChange handlers of the inputs: the user fills the form.  The values
\* matter only to the submit that follows, so a fill is part of the submit
\* actions below.
FillForm(inp) ==
  /\ description' = inp.description
  /\ amount' = inp.amount
  /\ type' = inp.type
  /\ category' = inp.category
  /\ date' = inp.date

\* The browser submits a form only when its required inputs hold values of
\* their type: text, a number, a date.
FormValid(inp) ==
  /\ inp.description # ""
  /\ IsNumberInputValue(inp.amount)
  /\ inp.category # ""
  /\ IsDateInputValue(inp.date)

resetForm ==
  /\ description' = ""
  /\ amount' = <<>>
  /\ type' = "expense"
  /\ category' = ""
  /\ date' = Today
  /\ editingTransaction' = Null

openEditDialog(transaction) ==
  /\ ~isEditDialogOpen
  /\ editingTransaction' = transaction
  /\ description' = transaction.description
  /\ amount' = NumToString(transaction.amount)
  /\ type' = transaction.type
  /\ category' = transaction.category
  /\ date' = transaction.date
  /\ isEditDialogOpen' = TRUE
  /\ UNCHANGED <<store, nextId, transactions, pending, uncaught>>

\* Dialog onOpenChange={setIsEditDialogOpen}: the user dismisses the dialog.
onOpenChange ==
  /\ isEditDialogOpen
  /\ isEditDialogOpen' = FALSE
  /\ UNCHANGED <<store, nextId, transactions, description, amount, type,
                 category, date, editingTransaction, pending, uncaught>>

\* ---------------------------------------------------------------- requests

Request(kind, id, body) ==
  [kind |-> kind, id |-> id, body |-> body,
   transactions |-> transactions,   \* the list the handler closed over
   phase |-> "sent", response |-> Null]

Remove(seq, i) == SubSeq(seq, 1, i - 1) \o SubSeq(seq, i + 1, Len(seq))

\* Identifiers still to be assigned to POSTs already on their way.
PostsInFlight ==
  Cardinality({i \in 1..Len(pending) :
                 pending[i].kind = "POST" /\ pending[i].phase = "sent"})

\* ---------------------------------------------------------------- handlers

\* addTransaction up to its await: the user fills the main form and submits
\* it while no transaction is being edited.
addTransaction(inp) ==
  /\ ~isEditDialogOpen
  /\ editingTransaction = Null
  /\ FormValid(inp)
  /\ FillForm(inp)
  /\ LET newTransaction ==
           [description |-> description', amount |-> parseFloat(amount'),
            type |-> type', category |-> category', date |-> date']
     IN  pending' = Append(pending, Request("POST", 0, newTransaction))
  /\ UNCHANGED <<store, nextId, transactions, editingTransaction,
                 isEditDialogOpen, uncaught>>

\* addTransaction after its await.
addTransactionResume(i) ==
  /\ pending[i].kind = "POST"
  /\ pending[i].phase = "responded"
  /\ LET savedTransaction == pending[i].response
     IN  transactions' = <<savedTransaction>> \o pending[i].transactions
  /\ resetForm
  /\ pending' = Remove(pending, i)
  /\ UNCHANGED <<store, nextId, isEditDialogOpen, uncaught>>

\* editTransaction up to its await: the user fills and submits the dialog's
\* form, or the main form while a transaction is being edited.
editTransaction(inp) ==
  /\ isEditDialogOpen \/ editingTransaction # Null
  /\ FormValid(inp)
  /\ FillForm(inp)
  /\ IF editingTransaction = Null
     THEN UNCHANGED pending
     ELSE LET updatedTransaction ==
                   [_id |-> editingTransaction._id,
                    description |-> description', amount |-> parseFloat(amount'),
                    type |-> type', category |-> category', date |-> date']
          IN  pending' = Append(pending,
                 Request("PUT", editingTransaction._id, updatedTransaction))
  /\ UNCHANGED <<store, nextId, transactions, editingTransaction,
                 isEditDialogOpen, uncaught>>

\* transactions.map((t) => t._id === savedTransaction._id ? savedTransaction : t)
MapSaved(list, savedTransaction) ==
  [k \in 1..Len(list) |->
     IF list[k]._id = savedTransaction._id THEN savedTransaction ELSE list[k]]

\* editTransaction after its await.  With a null response and a non-empty
\* list, reading savedTransaction._id throws inside map: the handler's
\* promise is rejected and none of its state updates run.
editTransactionResume(i) ==
  /\ pending[i].kind = "PUT"
  /\ pending[i].phase = "responded"
  /\ LET savedTransaction == pending[i].response
         list == pending[i].transactions
     IN  IF savedTransaction = Null /\ list # <<>>
         THEN /\ uncaught' = TRUE
              /\ UNCHANGED ui
         ELSE /\ transactions' =
                   IF list = <<>> THEN <<>> ELSE MapSaved(list, savedTransaction)
              /\ isEditDialogOpen' = FALSE
              /\ resetForm
              /\ UNCHANGED uncaught
  /\ pending' = Remove(pending, i)
  /\ UNCHANGED <<store, nextId>>

\* deleteTransaction up to its await: the delete button of a listed
\* transaction.
deleteTransaction(id) ==
  /\ ~isEditDialogOpen
  /\ \E k \in 1..Len(transactions) : transactions[k]._id = id
  /\ pending' = Append(pending, Request("DELETE", id, Null))
  /\ UNCHANGED <<store, nextId, ui, uncaught>>

\* deleteTransaction after its await.
deleteTransactionResume(i) ==
  /\ pending[i].kind = "DELETE"
  /\ pending[i].phase = "responded"
  /\ transactions' =
       SelectSeq(pending[i].transactions, LAMBDA t : t._id # pending[i].id)
  /\ pending' = Remove(pending, i)
  /\ UNCHANGED <<store, nextId, description, amount, type, category, date,
                 editingTransaction, isEditDialogOpen, uncaught>>

\* ---------------------------------------------------------------- server

Respond(i, response) ==
  pending' = [pending EXCEPT ![i].phase = "responded", ![i].response = response]

ServePOST(i) ==
  /\ pending[i].kind = "POST"
  /\ pending[i].phase = "sent"
  /\ LET r == POST(store, nextId, pending[i].body)
     IN  /\ store' = r.coll
         /\ Respond(i, r.response)
  /\ nextId' = nextId + 1
  /\ UNCHANGED <<ui, uncaught>>

ServePUT(i) ==
  /\ pending[i].kind = "PUT"
  /\ pending[i].phase = "sent"
  /\ LET r == PUT(store, pending[i].id, pending[i].body)
     IN  /\ store' = r.coll
         /\ Respond(i, r.response)
  /\ UNCHANGED <<nextId, ui, uncaught>>

ServeDELETE(i) ==
  /\ pending[i].kind = "DELETE"
  /\ pending[i].phase = "sent"
  /\ LET r == DELETE(store, pending[i].id)
     IN  /\ store' = r.coll
         /\ Respond(i, r.response)
  /\ UNCHANGED <<nextId, ui, uncaught>>

\* The page is loaded: Home reads the store and mounts the component.
Home ==
  /\ pending = <<>>
  /\ transactions' = GET(store)
  /\ description' = ""
  /\ amount' = <<>>
  /\ type' = "expense"
  /\ category' = ""
  /\ date' = Today
  /\ editingTransaction' = Null
  /\ isEditDialogOpen' = FALSE
  /\ uncaught' = FALSE
  /\ UNCHANGED <<store, nextId, pending>>

\* ---------------------------------------------------------------- aggregates

\* The derived views (useMemo) of a transaction list.

\* The position of the bucket keyed monthYear in monthlyData, 0 if absent.
BucketIndex(monthlyData, monthYear) ==
  IF \E j \in 1..Len(monthlyData) : monthlyData[j].key = monthYear
  THEN CHOOSE j \in 1..Len(monthlyData) : monthlyData[j].key = monthYear
  ELSE 0

\* Mutant: the bucket is created anew at every transaction (the test for an
\* existing bucket is missing), so earlier transactions of the month are lost.
AddToMonth_Reinit(monthlyData, transaction) ==
  LET monthYear == substring(transaction.date, 7)
      fresh == [key |-> monthYear,
                income |-> IF transaction.type = "income" THEN transaction.amount ELSE 0,
                expenses |-> IF transaction.type = "income" THEN 0 ELSE transaction.amount,
                balance |-> IF transaction.type = "income"
                            THEN transaction.amount ELSE 0 - transaction.amount,
                transactions |-> <<transaction>>]
      j == BucketIndex(monthlyData, monthYear)
  IN  IF j = 0 THEN Append(monthlyData, fresh)
      ELSE [monthlyData EXCEPT ![j] = fresh]

\* Mutant: the balance is taken before the amount is added to the bucket.
AddToMonth_StaleBalance(monthlyData, transaction) ==
  LET monthYear == substring(transaction.date, 7)
      created ==
        IF BucketIndex(monthlyData, monthYear) = 0
        THEN Append(monthlyData,
                    [key |-> monthYear, income |-> 0, expenses |-> 0,
                     balance |-> 0, transactions |-> <<>>])
        ELSE monthlyData
      j == BucketIndex(created, monthYear)
      stale == created[j].income - created[j].expenses
  IN  [created EXCEPT
         ![j] = [@ EXCEPT
                   !.income = IF transaction.type = "income"
                              THEN @ + transaction.amount ELSE @,
                   !.expenses = IF transaction.type = "income"
                                THEN @ ELSE @ + transaction.amount,
                   !.balance = stale,
                   !.transactions = Append(@, transaction)]]

\* One turn of the forEach in calculateMonthlyData.
AddToMonth(monthlyData, transaction) ==
  LET monthYear == substring(transaction.date, 7)
      created ==
        IF BucketIndex(monthlyData, monthYear) = 0
        THEN Append(monthlyData,
                    [key |-> monthYear, income |-> 0, expenses |-> 0,
                     balance |-> 0, transactions |-> <<>>])
        ELSE monthlyData
      j == BucketIndex(created, monthYear)
      summed ==
        IF transaction.type = "income"
        THEN [created[j] EXCEPT !.income = @ + transaction.amount]
        ELSE [created[j] EXCEPT !.expenses = @ + transaction.amount]
  IN  [created EXCEPT
         ![j] = [summed EXCEPT !.balance = summed.income - summed.expenses,
                               !.transactions = Append(@, transaction)]]

RECURSIVE MonthlyFrom(_, _)
MonthlyFrom(monthlyData, list) ==
  IF list = <<>> THEN monthlyData
  ELSE MonthlyFrom(AddToMonth(monthlyData, Head(list)), Tail(list))

\* The buckets as Object.entries lists them: in the order their keys were
\* first inserted.
calculateMonthlyData(list) == MonthlyFrom(<<>>, list)

\* Mutant: the type is compared with a label no record carries, so every
\* amount is counted as an expense.
AddToAnnual_AllExpenses(annualData, transaction) ==
  IF transaction.type = "Income"
  THEN [annualData EXCEPT !.income = @ + transaction.amount]
  ELSE [annualData EXCEPT !.expenses = @ + transaction.amount]

\* One turn of the forEach in calculateAnnualData.
AddToAnnual(annualData, transaction) ==
  IF transaction.type = "income"
  THEN [annualData EXCEPT !.income = @ + transaction.amount]
  ELSE [annualData EXCEPT !.expenses = @ + transaction.amount]

RECURSIVE AnnualFrom(_, _)
AnnualFrom(annualData, list) ==
  IF list = <<>> THEN annualData
  ELSE AnnualFrom(AddToAnnual(annualData, Head(list)), Tail(list))

\* Mutant: the balance is taken before the loop has run.
calculateAnnualData_StaleBalance(list) ==
  LET annualData == [income |-> 0, expenses |-> 0, balance |-> 0]
  IN  [AnnualFrom(annualData, list) EXCEPT
         !.balance = annualData.income - annualData.expenses]

calculateAnnualData(list) ==
  LET annualData ==
        AnnualFrom([income |-> 0, expenses |-> 0, balance |-> 0], list)
  IN  [annualData EXCEPT !.balance = annualData.income - annualData.expenses]

\* The position of the entry named name in categories, 0 if absent.
CategoryIndex(categories, name) ==
  IF \E j \in 1..Len(categories) : categories[j].name = name
  THEN CHOOSE j \in 1..Len(categories) : categories[j].name = name
  ELSE 0

\* Mutant: the test on the type is missing, so income is added as well.
AddToCategory_AnyType(categories, transaction) ==
  LET j == CategoryIndex(categories, transaction.category)
  IN  IF j = 0
      THEN Append(categories,
                  [name |-> transaction.category, value |-> 0 + transaction.amount])
      ELSE [categories EXCEPT ![j].value = @ + transaction.amount]

\* One turn of the forEach in expensesByCategory.
AddToCategory(categories, transaction) ==
  IF transaction.type = "expense"
  THEN LET j == CategoryIndex(categories, transaction.category)
       IN  IF j = 0
           THEN Append(categories,
                       [name |-> transaction.category,
                        value |-> 0 + transaction.amount])
           ELSE [categories EXCEPT ![j].value = @ + transaction.amount]
  ELSE categories

RECURSIVE CategoriesFrom(_, _)
CategoriesFrom(categories, list) ==
  IF list = <<>> THEN categories
  ELSE CategoriesFrom(AddToCategory(categories, Head(list)), Tail(list))

\* The { name, value } entries, in the order the labels were first seen.
expensesByCategory(list) == CategoriesFrom(<<>>, list)

\* ---------------------------------------------------------------- chart

\* monthlyChartData labels each bucket with
\* new Date(month).toLocaleString("default", {month: "short", year: "numeric"})
\* and sorts the points by new Date(name).getTime().  "default" is no locale
\* of its own: the label is written in the default locale and the time zone
\* of the runtime that renders the component, and the label is not in a
\* format ECMAScript defines, so how new Date reads it back is up to the
\* engine.  A runtime is therefore a parameter of the chart:
\*   locale    - the default locale ("en-US", or "pl-PL" as a locale whose
\*               short month names are not the English ones);
\*   behindUTC - whether local time is behind UTC;
\*   lenient   - what the engine's date parser does with a word it does not
\*               know: skip it (TRUE) or give Invalid Date (FALSE).
\* A label "Jan 2024" is the record [month |-> "Jan", year |-> <<"2","0","2","4">>].
Runtimes == [locale : {"en-US", "pl-PL"}, behindUTC : BOOLEAN, lenient : BOOLEAN]

EnglishShort ==
  <<"Jan", "Feb", "Mar", "Apr", "May", "Jun",
    "Jul", "Aug", "Sep", "Oct", "Nov", "Dec">>

\* The English names in lower case: the engines match month names without
\* regard to case.
EnglishShortLower ==
  <<"jan", "feb", "mar", "apr", "may", "jun",
    "jul", "aug", "sep", "oct", "nov", "dec">>

\* The Polish short month names (the z of "paz" carries an acute accent).
PolishShort ==
  <<"sty", "lut", "mar", "kwi", "maj", "cze",
    "lip", "sie", "wrz", "paz", "lis", "gru">>

ShortMonths(locale) == IF locale = "en-US" THEN EnglishShort ELSE PolishShort

\* new Date(month) for a key "YYYY-MM": a date-only ISO form, read as
\* midnight UTC of the first day of the month.
DateOfMonthKey(month) ==
  [year |-> DigitsVal(SubSeq(month, 1, 4)), month |-> DigitsVal(SubSeq(month, 6, 7))]

\* The local calendar month of midnight UTC of the first day of a month: the
\* month before where local time is behind UTC.
LocalMonth(utc, runtime) ==
  IF ~runtime.behindUTC THEN utc
  ELSE IF utc.month = 1 THEN [year |-> utc.year - 1, month |-> 12]
       ELSE [year |-> utc.year, month |-> utc.month - 1]

\* new Date(month).toLocaleString("default", {month: "short", year: "numeric"}).
toLocaleString(month, runtime) ==
  LET local == LocalMonth(DateOfMonthKey(month), runtime)
  IN  [month |-> ShortMonths(runtime.locale)[local.month],
       year |-> NumToString(local.year)]

\* The month number an engine's date parser reads from a word, 0 if it does
\* not know the word.
MonthOfWord(word) ==
  IF \E m \in 1..12 : word \in {EnglishShort[m], EnglishShortLower[m]}
  THEN CHOOSE m \in 1..12 : word \in {EnglishShort[m], EnglishShortLower[m]}
  ELSE 0

\* new Date(name) for a label: local midnight of the first day of the month
\* named; for a month word the parser does not know, January of the year
\* (the word is skipped) or Invalid Date.  The time is counted in months.
DateOfLabel(name, runtime) ==
  LET m == MonthOfWord(name.month)
  IN  IF m # 0 THEN [valid |-> TRUE, time |-> 12 * DigitsVal(name.year) + (m - 1)]
      ELSE IF runtime.lenient
           THEN [valid |-> TRUE, time |-> 12 * DigitsVal(name.year)]
           ELSE [valid |-> FALSE, time |-> 0]

\* The comparator of the sort, as Array.prototype.sort uses its result:
\* getTime() of an Invalid Date is NaN, a NaN difference counts as +0.
CompareByTime(a, b, runtime) ==
  LET ta == DateOfLabel(a.name, runtime)
      tb == DateOfLabel(b.name, runtime)
  IN  IF ta.valid /\ tb.valid THEN ta.time - tb.time ELSE 0

\* Array.prototype.sort is stable: a point goes before the first point the
\* comparator places after it.
RECURSIVE InsertByTime(_, _, _)
InsertByTime(sorted, point, runtime) ==
  IF sorted = <<>> THEN <<point>>
  ELSE IF CompareByTime(Head(sorted), point, runtime) > 0
       THEN <<point>> \o sorted
       ELSE <<Head(sorted)>> \o InsertByTime(Tail(sorted), point, runtime)

RECURSIVE SortByTime(_, _)
SortByTime(points, runtime) ==
  IF points = <<>> THEN <<>>
  ELSE InsertByTime(SortByTime(SubSeq(points, 1, Len(points) - 1), runtime),
                    points[Len(points)], runtime)

\* The chart series of the monthly buckets, as rendered in a runtime.
monthlyChartData(monthlyData, runtime) ==
  SortByTime([j \in 1..Len(monthlyData) |->
                [name |-> toLocaleString(monthlyData[j].key, runtime),
                 income |-> monthlyData[j].income,
                 expenses |-> monthlyData[j].expenses,
                 balance |-> monthlyData[j].balance]],
             runtime)

\* ---------------------------------------------------------------- specifications

\* A gesture that sends a request is possible while fewer than maxPending
\* requests are in flight; a POST needs an identifier left for it.
CanSend(maxPending) == Len(pending) < maxPending

IdsLeft(maxIds) == nextId + PostsInFlight <= maxIds

\* Requests may overlap: the user acts while earlier requests are in flight.
Next ==
  \/ \E k \in 1..Len(transactions) : openEditDialog(transactions[k])
  \/ onOpenChange
  \/ \E inp \in FormInputs :
       CanSend(MaxPending) /\ IdsLeft(MaxIds) /\ addTransaction(inp)
  \/ \E inp \in FormInputs : CanSend(MaxPending) /\ editTransaction(inp)
  \/ \E k \in 1..Len(transactions) :
       CanSend(MaxPending) /\ deleteTransaction(transactions[k]._id)
  \/ \E i \in 1..Len(pending) : ServePOST(i)
  \/ \E i \in 1..Len(pending) : ServePUT(i)
  \/ \E i \in 1..Len(pending) : ServeDELETE(i)
  \/ \E i \in 1..Len(pending) : addTransactionResume(i)
  \/ \E i \in 1..Len(pending) : editTransactionResume(i)
  \/ \E i \in 1..Len(pending) : deleteTransactionResume(i)
  \/ Home

Spec == Init /\ [][Next]_vars

\* The user waits for each request to return before the next gesture, and
\* chooses from the wider inputs.
Idle == pending = <<>>

NextSeq ==
  \/ \E k \in 1..Len(transactions) : Idle /\ openEditDialog(transactions[k])
  \/ Idle /\ onOpenChange
  \/ \E inp \in SeqFormInputs : Idle /\ IdsLeft(SeqMaxIds) /\ addTransaction(inp)
  \/ \E inp \in SeqFormInputs : Idle /\ editTransaction(inp)
  \/ \E k \in 1..Len(transactions) :
       Idle /\ deleteTransaction(transactions[k]._id)
  \/ \E i \in 1..Len(pending) : ServePOST(i)
  \/ \E i \in 1..Len(pending) : ServePUT(i)
  \/ \E i \in 1..Len(pending) : ServeDELETE(i)
  \/ \E i \in 1..Len(pending) : addTransactionResume(i)
  \/ \E i \in 1..Len(pending) : editTransactionResume(i)
  \/ \E i \in 1..Len(pending) : deleteTransactionResume(i)
  \/ Home

SpecSeq == Init /\ [][NextSeq]_vars

\* ---------------------------------------------------------------- claims

\* Vocabulary of the claims, defined without the code's folds.  A derived
\* view is bound by a quantifier over its singleton set, which evaluates it
\* once per state.

Range(seq) == {seq[k] : k \in 1..Len(seq)}

Ids(seq) == {seq[k]._id : k \in 1..Len(seq)}

RECURSIVE SumAmounts(_)
SumAmounts(list) ==
  IF list = <<>> THEN 0 ELSE list[Len(list)].amount + SumAmounts(SubSeq(list, 1, Len(list) - 1))

IncomeOf(list) == SelectSeq(list, LAMBDA t : t.type = "income")

ExpensesOf(list) == SelectSeq(list, LAMBDA t : t.type = "expense")

WithLabel(list, label) == SelectSeq(list, LAMBDA t : t.category = label)

\* The year-month key of a date string: its first seven characters.
MonthKey(dateString) == SubSeq(dateString, 1, 7)

InMonth(list, key) == SelectSeq(list, LAMBDA t : MonthKey(t.date) = key)

RECURSIVE SumOf(_, _)
SumOf(entries, field) ==
  IF entries = <<>> THEN 0 ELSE Head(entries)[field] + SumOf(Tail(entries), field)

Labels == {inp.category : inp \in SeqFormInputs}

\* C1: the annual balance is the sum of the income amounts minus the sum of
\* the expense amounts of the list, and equals the sum of the balances of the
\* monthly buckets computed from the same list.
C1_AnnualBalance ==
  \A annual \in {calculateAnnualData(transactions)},
     monthly \in {calculateMonthlyData(transactions)} :
    /\ annual.balance =
         SumAmounts(IncomeOf(transactions)) - SumAmounts(ExpensesOf(transactions))
    /\ annual.balance = SumOf(monthly, "balance")

\* A list with income and expenses spread over two months, one of which
\* holds two transactions and ends with a negative balance somewhere.
C1_Witness ==
  /\ Len(transactions) = 3
  /\ Len(calculateMonthlyData(transactions)) = 2
  /\ IncomeOf(transactions) # <<>>
  /\ Len(ExpensesOf(transactions)) = 2
  /\ \E j \in 1..2 : calculateMonthlyData(transactions)[j].balance < 0

\* C2: the incomes of the monthly buckets add up to the annual income, and
\* every transaction of the list is held by exactly one bucket.
C2_PartitionComplete ==
  \A annual \in {calculateAnnualData(transactions)},
     monthly \in {calculateMonthlyData(transactions)} :
    /\ SumOf(monthly, "income") = annual.income
    /\ \A k \in 1..Len(transactions) :
         Cardinality({j \in 1..Len(monthly) :
                        transactions[k] \in Range(monthly[j].transactions)}) = 1
    /\ \A j \in 1..Len(monthly) :
         Cardinality(Range(monthly[j].transactions)) = Len(monthly[j].transactions)

\* Two income transactions in different months and a month with two
\* transactions.
C2_Witness ==
  /\ Len(transactions) = 3
  /\ Len(IncomeOf(transactions)) = 2
  /\ Len(calculateMonthlyData(transactions)) = 2
  /\ \A j \in 1..2 : calculateMonthlyData(transactions)[j].income > 0

\* The total the category view shows for a label: 0 when it has no entry.
CategoryTotal(list, label) ==
  LET categories == expensesByCategory(list)
      j == CategoryIndex(categories, label)
  IN  IF j = 0 THEN 0 ELSE categories[j].value

C3_TotalsExact ==
  LET categories == expensesByCategory(transactions)
  IN  /\ \A label \in Labels :
           CategoryTotal(transactions, label) =
             SumAmounts(WithLabel(ExpensesOf(transactions), label))
      /\ \A i, j \in 1..Len(categories) :
           categories[i].name = categories[j].name => i = j
      /\ {categories[j].name : j \in 1..Len(categories)} =
           {t.category : t \in Range(ExpensesOf(transactions))}

C3_IncomeIgnored ==
  ExpensesOf(transactions') = ExpensesOf(transactions)
    => expensesByCategory(transactions') = expensesByCategory(transactions)

Served(i, kind) ==
  /\ i \in 1..Len(pending)
  /\ Len(pending') = Len(pending)
  /\ pending[i].kind = kind
  /\ pending[i].phase = "sent"
  /\ pending'[i].phase = "responded"

\* The record carries the field values of a request body; its date string
\* starts with the day submitted.
Carries(record, body) ==
  /\ record.description = body.description
  /\ record.amount = body.amount
  /\ record.type = body.type
  /\ record.category = body.category
  /\ SubSeq(record.date, 1, 10) = SubSeq(body.date, 1, 10)

C4_Create(i) ==
  LET before == GET(store)
      after == GET(store')
      created == pending'[i].response
  IN  /\ Range(before) \subseteq Range(after)
      /\ Len(after) = Len(before) + 1
      /\ Range(after) \ Range(before) = {created}
      /\ Carries(created, pending[i].body)
      /\ created._id \notin Ids(before)
      /\ Cardinality(Ids(after)) = Len(after)

\* C4: after a POST the list holds every record it held before and exactly
\* one new record, which carries the submitted fields and an identifier no
\* earlier record has, and which is the response of the POST.
C4_CreateRoundTrip ==
  [][\A i \in 1..MaxPending : Served(i, "POST") => C4_Create(i)]_vars

\* A POST has been answered with a record that is listed beside an older one.
C4_Witness ==
  \E i \in 1..Len(pending) :
    /\ pending[i].kind = "POST"
    /\ pending[i].phase = "responded"
    /\ pending[i].response \in Range(GET(store))
    /\ Len(store) = 2

C5_Edit(i) ==
  LET before == GET(store)
      after == GET(store')
      id == pending[i].id
      updated == pending'[i].response
  IN  id \in Ids(before) =>
        /\ Len(after) = Len(before)
        /\ Ids(after) = Ids(before)
        /\ \A r \in Range(after) :
             IF r._id = id
             THEN Carries(r, pending[i].body) /\ updated = r
             ELSE r \in Range(before)

\* C5: after a PUT of an id the store holds, the list shows that id with the
\* fields of the body, holds as many records as before and every other record
\* unchanged, and the response is the record as updated.
C5_EditInPlace ==
  [][\A i \in 1..MaxPending : Served(i, "PUT") => C5_Edit(i)]_vars

\* A PUT has been answered with a record that differs from the one the
\* handler's list holds for that id, while another record is stored too.
C5_Witness ==
  \E i \in 1..Len(pending) :
    /\ pending[i].kind = "PUT"
    /\ pending[i].phase = "responded"
    /\ pending[i].response \in Range(GET(store))
    /\ \E t \in Range(pending[i].transactions) :
         t._id = pending[i].id /\ t # pending[i].response
    /\ Len(store) = 2

C6_Delete(i) ==
  LET before == GET(store)
      after == GET(store')
      id == pending[i].id
  IN  /\ id \notin Ids(after)
      /\ Range(after) = {r \in Range(before) : r._id # id}
      /\ Cardinality(Ids(after)) = Len(after)
      /\ pending'[i].response = DeletedMessage
      /\ id \notin Ids(before) => store' = store

\* An identifier the store has assigned and no longer holds stays absent.
C6_StaysAbsent ==
  \A id \in 1..MaxIds :
    id < nextId /\ id \notin Ids(store) => id \notin Ids(store')

\* C6: after a DELETE of an id the list no longer holds that id, now or
\* later, and holds every other record; a DELETE of an absent id answers with
\* the same confirmation and leaves the stored records as they were.
C6_DeleteIdempotent ==
  [][/\ \A i \in 1..MaxPending : Served(i, "DELETE") => C6_Delete(i)
     /\ C6_StaysAbsent]_vars

\* A second DELETE of an identifier has been answered after the first one
\* removed the record, and another record is still stored.
C6_Witness ==
  \E i \in 1..Len(pending) :
    /\ pending[i].kind = "DELETE"
    /\ pending[i].phase = "responded"
    /\ pending[i].response = DeletedMessage
    /\ pending[i].id \in Ids(pending[i].transactions)
    /\ pending[i].id \notin Ids(store)
    /\ Len(pending) = 1
    /\ pending[i].id \notin Ids(transactions)
    /\ Len(store) = 1

C7_PutAbsent(i) ==
  pending[i].id \notin Ids(store) =>
    store' = store /\ pending'[i].response = Null

\* A step in which the edit handler resumes with a null response.
ResumedNullEdit(i) ==
  /\ i \in 1..Len(pending)
  /\ pending[i].kind = "PUT"
  /\ pending[i].phase = "responded"
  /\ pending[i].response = Null
  /\ pending' = Remove(pending, i)

C7_HandlerCompletes ==
  /\ uncaught' = uncaught
  /\ transactions' = transactions
  /\ isEditDialogOpen' = FALSE
  /\ description' = "" /\ amount' = <<>> /\ type' = "expense"
  /\ category' = "" /\ date' = Today
  /\ editingTransaction' = Null

\* C7: a PUT of an absent id leaves the store unchanged and answers null, and
\* the edit handler that receives the null completes normally: the list is
\* unchanged, the dialog is closed and the form is reset.
C7_NullEditHandled ==
  [][/\ \A i \in 1..MaxPending : Served(i, "PUT") => C7_PutAbsent(i)
     /\ \A i \in 1..MaxPending : ResumedNullEdit(i) => C7_HandlerCompletes]_vars

\* The route's half of C7 alone.
C7_RouteAnswersNull ==
  [][\A i \in 1..MaxPending : Served(i, "PUT") => C7_PutAbsent(i)]_vars

\* The list holds exactly the stored records, each once.
Mirrors(list, coll) ==
  /\ Range(list) = Range(GET(coll))
  /\ Cardinality(Ids(list)) = Len(list)

\* C8: once every request has completed, the local list holds exactly the
\* records of the store.
C8_ListMirrorsStore == pending = <<>> => Mirrors(transactions, store)

\* The day a date string names, as a number that orders days.
DayNumber(dateString) ==
  DigitsVal(SubSeq(dateString, 1, 4)) * 10000
    + DigitsVal(SubSeq(dateString, 6, 7)) * 100
    + DigitsVal(SubSeq(dateString, 9, 10))

\* C9: the list operation returns every stored record, newest date first.
C9_ListSortedComplete ==
  \A listed \in {GET(store)} :
    /\ \A k \in 1..(Len(listed) - 1) :
         DayNumber(listed[k].date) >= DayNumber(listed[k + 1].date)
    /\ Len(listed) = Len(store)
    /\ Range(listed) = {toJSON(doc) : doc \in Range(store)}

\* A page load has listed three records of three different days that were
\* not created newest-last.
C9_Witness ==
  /\ Len(store) = 3
  /\ transactions = GET(store)
  /\ Cardinality({DayNumber(t.date) : t \in Range(transactions)}) = 3
  /\ transactions[1]._id < transactions[2]._id
  /\ transactions[3]._id < transactions[2]._id

\* C10: there is one bucket for each year-month key of the list and no other
\* bucket; a bucket holds exactly the transactions with its key, its income
\* and expenses are their sums by type and its balance is income minus
\* expenses; the empty list has no buckets and annual totals of zero.
C10_MonthlyBuckets ==
  \A monthly \in {calculateMonthlyData(transactions)} :
    /\ {monthly[j].key : j \in 1..Len(monthly)} =
         {MonthKey(t.date) : t \in Range(transactions)}
    /\ Cardinality({monthly[j].key : j \in 1..Len(monthly)}) = Len(monthly)
    /\ \A j \in 1..Len(monthly) :
         \A held \in {InMonth(transactions, monthly[j].key)} :
           /\ Len(monthly[j].key) = 7
           /\ monthly[j].transactions = held
           /\ monthly[j].income = SumAmounts(IncomeOf(held))
           /\ monthly[j].expenses = SumAmounts(ExpensesOf(held))
           /\ monthly[j].balance = monthly[j].income - monthly[j].expenses
    /\ transactions = <<>> =>
         /\ monthly = <<>>
         /\ calculateAnnualData(transactions) =
              [income |-> 0, expenses |-> 0, balance |-> 0]

\* Two buckets, one of them holding an income and an expense of different
\* days of the same month.
C10_Witness ==
  LET monthly == calculateMonthlyData(transactions)
  IN  /\ Len(monthly) = 2
      /\ \E j \in 1..2 :
           /\ Len(monthly[j].transactions) = 2
           /\ monthly[j].income > 0 /\ monthly[j].expenses > 0
           /\ monthly[j].transactions[1].date # monthly[j].transactions[2].date

\* The calendar month of a year-month key, counted in months.
CalendarMonth(key) ==
  12 * DigitsVal(SubSeq(key, 1, 4)) + DigitsVal(SubSeq(key, 6, 7))

\* The positions of the chart points that stand for a bucket in a runtime:
\* those labelled with the bucket's month.
PointsOf(chart, bucket, runtime) ==
  {i \in 1..Len(chart) : chart[i].name = toLocaleString(bucket.key, runtime)}

\* In a runtime the chart has one point for each monthly bucket and no other
\* point, and the point carries the bucket's income, expenses and balance.
C11_PointPerBucket(runtime) ==
  \A monthly \in {calculateMonthlyData(transactions)} :
    \A chart \in {monthlyChartData(monthly, runtime)} :
      /\ Len(chart) = Len(monthly)
      /\ \A j \in 1..Len(monthly) :
           /\ Cardinality(PointsOf(chart, monthly[j], runtime)) = 1
           /\ \A i \in PointsOf(chart, monthly[j], runtime) :
                /\ chart[i].income = monthly[j].income
                /\ chart[i].expenses = monthly[j].expenses
                /\ chart[i].balance = monthly[j].balance

\* In a runtime the points come in ascending order of the calendar months of
\* their buckets.
C11_Ascending(runtime) ==
  \A monthly \in {calculateMonthlyData(transactions)} :
    \A chart \in {monthlyChartData(monthly, runtime)} :
      \A j, k \in 1..Len(monthly) :
        \A i \in PointsOf(chart, monthly[j], runtime) :
          \A l \in PointsOf(chart, monthly[k], runtime) :
            i < l => CalendarMonth(monthly[j].key) < CalendarMonth(monthly[k].key)

\* C11: the chart series has exactly one point per monthly bucket, carrying
\* the bucket's income, expenses and balance, and the points are in ascending
\* order of calendar month whatever the order of the transactions in the
\* list; this in every runtime the component can render in.
C11_ChartSeries ==
  \A runtime \in Runtimes : C11_PointPerBucket(runtime) /\ C11_Ascending(runtime)

\* The part of C11 that holds in every runtime: one point per bucket, with
\* the bucket's sums.
C11_PointsInEveryRuntime ==
  \A runtime \in Runtimes : C11_PointPerBucket(runtime)

\* The part of C11 that holds where the labels are English: the points are
\* in ascending order, whatever the time zone and the parser.
C11_AscendingInEnglish ==
  \A runtime \in Runtimes : runtime.locale = "en-US" => C11_Ascending(runtime)

\* The list holds a later month ahead of an earlier one, so the buckets are
\* not inserted in calendar order and the order of the chart is the work of
\* the sort.
C11_NewestFirst ==
  \E monthly \in {calculateMonthlyData(transactions)} :
    /\ Len(monthly) >= 2
    /\ CalendarMonth(monthly[1].key) > CalendarMonth(monthly[2].key)

C13_OpenHasRecord == isEditDialogOpen => editingTransaction # Null

\* The dialog opens on a transaction of the list with that transaction's
\* values in the form; as long as it stays open it keeps that transaction;
\* and a request sent while it is open is a PUT for that transaction.
C13_Step ==
  /\ (~isEditDialogOpen /\ isEditDialogOpen') =>
       /\ editingTransaction' \in Range(transactions)
       /\ description' = editingTransaction'.description
       /\ amount' = NumToString(editingTransaction'.amount)
       /\ type' = editingTransaction'.type
       /\ category' = editingTransaction'.category
       /\ date' = editingTransaction'.date
  /\ (isEditDialogOpen /\ isEditDialogOpen') =>
       editingTransaction' = editingTransaction
  /\ (isEditDialogOpen /\ Len(pending') > Len(pending)) =>
       /\ pending'[Len(pending')].kind = "PUT"
       /\ pending'[Len(pending')].id = editingTransaction._id

\* C13: whenever the edit dialog is open, editingTransaction is the
\* transaction whose values were loaded into the form when the dialog
\* opened, so that submitting the dialog's form sends a PUT for it; also
\* when a request started earlier completes while the dialog is open.
C13_DialogEditsLoaded == []C13_OpenHasRecord /\ [][C13_Step]_vars

====
